---- MODULE Spec2Model ----
(***************************************************************************)
(* A model of the EDA / PPG preprocessing and fusion scripts:              *)
(*   src/eda-process.py, src/ppg-process.py, src/ppg-process_vi.py,        *)
(*   src/Concat_code/Combined_eapg.py.                                     *)
(* Each stage of the pipeline is a specification of its own over the same  *)
(* variables (SpecMerge, SpecProcess, SpecMain, SpecHrv, SpecTs); a stage  *)
(* leaves the variables of the other stages at their initial value.        *)
(***************************************************************************)
EXTENDS Integers, Sequences, FiniteSets, TLC

VARIABLES
    \* Combined_eapg.py: main / merge_eda_ppg
    eda_data, ppg_data, eda_df, ppg_df, right_indexer, merged, combined_df, mpc,
    \* process_ppg_file: resample and save (eda-process.py, ppg-process_vi.py,
    \* ppg-process.py)
    script, signals, data_len, final_data, csv, ppc,
    \* main loop of a processing script
    mscript, files, idx, handed, mainpc,
    \* ppg-process_vi.py: peaks, RR series, HRV columns
    data, peaks, rr_df, rolling, processed_data, hpc,
    \* process_timestamp
    ts_in, ts_out, tpc,
    \* ppg-process.py: the walk over the 300 s windows
    timestamps, window_mask, start_time, end_time, hrv_results, visited, wpc

mergeVars == <<eda_data, ppg_data, eda_df, ppg_df, right_indexer, merged,
               combined_df, mpc>>
procVars  == <<script, signals, data_len, final_data, csv, ppc>>
mainVars  == <<mscript, files, idx, handed, mainpc>>
hrvVars   == <<data, peaks, rr_df, rolling, processed_data, hpc>>
tsVars    == <<ts_in, ts_out, tpc>>
walkVars  == <<timestamps, window_mask, start_time, end_time, hrv_results,
               visited, wpc>>
vars      == <<mergeVars, procVars, mainVars, hrvVars, tsVars, walkVars>>

(***************************************************************************)
(* Generic helpers                                                         *)
(***************************************************************************)
Range(s) == {s[i] : i \in DOMAIN s}

Abs(x) == IF x < 0 THEN -x ELSE x

\* All sequences over S of length lo..hi
SeqsOf(S, lo, hi) == UNION {[1..n -> S] : n \in lo..hi}

\* The permutations of a sequence of rows that are ordered by their DateTime
SortedPerms(rows) ==
    LET n == Len(rows)
        perms == {p \in [1..n -> 1..n] : \A i, j \in 1..n : i # j => p[i] # p[j]}
    IN {[i \in 1..n |-> rows[p[i]]] : p \in
            {q \in perms : \A i \in 1..(n-1) :
                rows[q[i]]["DateTime"] <= rows[q[i+1]]["DateTime"]}}

(***************************************************************************)
(* Bounds of the model                                                     *)
(***************************************************************************)
\* resolution of the resample time axis: ticks per second
TicksPerSecond == 2
\* resolution of the fusion time axis: ticks per second
MergeTicksPerSecond == 1
\* largest timestamp (in fusion ticks) of a fused input row
MaxTime == 2
MaxEdaRows == 3
MaxPpgRows == 2

(***************************************************************************)
(* Combined_eapg.py                                                        *)
(***************************************************************************)
NaN == "NaN"

EmptyFrame == [columns |-> {}, rows |-> <<>>]

IsEmpty(df) == Len(df.rows) = 0 \/ df.columns = {}

\* tolerance=pd.Timedelta('1s')
ToleranceSeconds == 1
Tolerance == ToleranceSeconds * MergeTicksPerSecond

\* the third component of each entry of duplicate_columns
DuplicateColumns == <<"gender", "type", "sleep", "bmi", "bmi_category", "id">>

LabelAttrs == Range(DuplicateColumns)

\* df.rename(columns={old: new}) when old is a column of df
RenameColumn(df, old, new) ==
    IF old \notin df.columns \/ old = new THEN df
    ELSE LET cols == (df.columns \ {old}) \cup {new}
         IN [columns |-> cols,
             rows |-> [i \in DOMAIN df.rows |->
                         [c \in cols |-> IF c = new THEN df.rows[i][old]
                                         ELSE df.rows[i][c]]]]

RECURSIVE RenameAll(_, _, _)
RenameAll(df, suffix, k) ==
    IF k = 0 THEN df
    ELSE LET new_col == DuplicateColumns[k]
         IN RenameColumn(RenameAll(df, suffix, k - 1),
                         new_col \o suffix, new_col \o suffix)

\* backward search of merge_asof: the last right row whose key is <= t,
\* dropped when further than the tolerance
BackwardIndex(right, t) ==
    LET cand == {j \in DOMAIN right : right[j]["DateTime"] <= t}
        j == IF cand = {} THEN 0 ELSE CHOOSE m \in cand : \A k \in cand : k <= m
    IN IF j # 0 /\ t - right[j]["DateTime"] > Tolerance THEN 0 ELSE j

\* forward search of merge_asof: the first right row whose key is >= t
ForwardIndex(right, t) ==
    LET cand == {j \in DOMAIN right : right[j]["DateTime"] >= t}
        j == IF cand = {} THEN 0 ELSE CHOOSE m \in cand : \A k \in cand : m <= k
    IN IF j # 0 /\ right[j]["DateTime"] - t > Tolerance THEN 0 ELSE j

NearestIndexTieLater(right, t) ==
    LET b == BackwardIndex(right, t)
        f == ForwardIndex(right, t)
    IN IF b # 0 /\ f # 0
       THEN (IF t - right[b]["DateTime"] < right[f]["DateTime"] - t THEN b ELSE f)
       ELSE (IF b # 0 THEN b ELSE f)

\* direction='nearest': the closer of the two, the backward one on a tie
NearestIndex(right, t) ==
    LET b == BackwardIndex(right, t)
        f == ForwardIndex(right, t)
    IN IF b # 0 /\ f # 0
       THEN (IF t - right[b]["DateTime"] <= right[f]["DateTime"] - t THEN b ELSE f)
       ELSE (IF b # 0 THEN b ELSE f)

\* 0 stands for "no match" (-1 in pandas)
RightIndexer(left, right) ==
    [i \in DOMAIN left |-> NearestIndex(right, left[i]["DateTime"])]

MergeAsofInner(left, right, ri) ==
    LET overlap == (left.columns \cap right.columns) \ {"DateTime"}
        lname(c) == IF c \in overlap THEN c \o "_eda" ELSE c
        rname(c) == IF c \in overlap THEN c \o "_ppg" ELSE c
        lcols == left.columns \ {"DateTime"}
        rcols == right.columns \ {"DateTime"}
        cols == {"DateTime"} \cup {lname(c) : c \in lcols}
                             \cup {rname(c) : c \in rcols}
        matched == {i \in DOMAIN left.rows : ri[i] # 0}
    IN [columns |-> cols,
        rows |-> [k \in 1..Cardinality(matched) |->
                    LET i == CHOOSE m \in matched :
                                Cardinality({x \in matched : x < m}) = k - 1
                    IN [col \in cols |->
                        IF col = "DateTime" THEN left.rows[i]["DateTime"]
                        ELSE IF \E c \in lcols : lname(c) = col
                        THEN left.rows[i][CHOOSE c \in lcols : lname(c) = col]
                        ELSE right.rows[ri[i]][CHOOSE c \in rcols : rname(c) = col]]]]

\* pd.merge_asof(eda_df, ppg_df, on='DateTime', direction='nearest',
\*               tolerance=1s, suffixes=('_eda', '_ppg')): a left join
MergeAsof(left, right, ri) ==
    LET overlap == (left.columns \cap right.columns) \ {"DateTime"}
        lname(c) == IF c \in overlap THEN c \o "_eda" ELSE c
        rname(c) == IF c \in overlap THEN c \o "_ppg" ELSE c
        lcols == left.columns \ {"DateTime"}
        rcols == right.columns \ {"DateTime"}
        cols == {"DateTime"} \cup {lname(c) : c \in lcols}
                             \cup {rname(c) : c \in rcols}
    IN [columns |-> cols,
        rows |-> [i \in DOMAIN left.rows |->
                    [col \in cols |->
                        IF col = "DateTime" THEN left.rows[i]["DateTime"]
                        ELSE IF \E c \in lcols : lname(c) = col
                        THEN left.rows[i][CHOOSE c \in lcols : lname(c) = col]
                        ELSE IF ri[i] = 0 THEN NaN
                        ELSE right.rows[ri[i]][CHOOSE c \in rcols : rname(c) = col]]]]

CoalescePpgFirst(df, new_col) ==
    LET eda_col == new_col \o "_eda"
        ppg_col == new_col \o "_ppg"
    IN IF eda_col \in df.columns /\ ppg_col \in df.columns
       THEN LET cols == (df.columns \cup {new_col}) \ {eda_col, ppg_col}
            IN [columns |-> cols,
                rows |-> [i \in DOMAIN df.rows |->
                    [c \in cols |->
                        IF c = new_col
                        THEN (IF df.rows[i][ppg_col] # NaN
                              THEN df.rows[i][ppg_col]
                              ELSE df.rows[i][eda_col])
                        ELSE df.rows[i][c]]]]
       ELSE df

\* combined_df[new_col] = combined_df[eda_col].fillna(combined_df[ppg_col]);
\* combined_df = combined_df.drop(columns=[eda_col, ppg_col])
Coalesce(df, new_col) ==
    LET eda_col == new_col \o "_eda"
        ppg_col == new_col \o "_ppg"
    IN IF eda_col \in df.columns /\ ppg_col \in df.columns
       THEN LET cols == (df.columns \cup {new_col}) \ {eda_col, ppg_col}
            IN [columns |-> cols,
                rows |-> [i \in DOMAIN df.rows |->
                    [c \in cols |->
                        IF c = new_col
                        THEN (IF df.rows[i][eda_col] # NaN
                              THEN df.rows[i][eda_col]
                              ELSE df.rows[i][ppg_col])
                        ELSE df.rows[i][c]]]]
       ELSE df

RECURSIVE CoalesceAll(_, _)
CoalesceAll(df, k) ==
    IF k = 0 THEN df
    ELSE Coalesce(CoalesceAll(df, k - 1), DuplicateColumns[k])

\* ---- the inputs main() hands to merge_eda_ppg ----
Times == 0..MaxTime

\* how the label columns are named in the two loaded tables: both carry the
\* six attributes under their plain names, both carry them under suffixed
\* names, or each carries only some of them
Configs == {"plain", "suffixed", "partial"}

EdaLabelColumns(cfg) ==
    CASE cfg = "plain" -> LabelAttrs
      [] cfg = "suffixed" -> {a \o "_eda" : a \in LabelAttrs}
      [] cfg = "partial" -> {"id", "gender"}

PpgLabelColumns(cfg) ==
    CASE cfg = "plain" -> LabelAttrs
      [] cfg = "suffixed" -> {a \o "_ppg" : a \in LabelAttrs}
      [] cfg = "partial" -> {"id", "bmi"}

\* a table whose rows carry a timestamp, one signal column and label columns
\* that all hold the row's label value
Frame(feature, labelCols, cells) ==
    LET cols == {"DateTime", feature} \cup labelCols
    IN [columns |-> cols,
        rows |-> [i \in DOMAIN cells |->
                    [c \in cols |-> IF c = "DateTime" THEN cells[i].t
                                    ELSE IF c = feature THEN "v"
                                    ELSE cells[i].lab]]]

\* the primary rows: the first loaded row has no label value, the rows after
\* it are of subject S1
EdaCellSeqs ==
    {[i \in DOMAIN ts |-> [t |-> ts[i], lab |-> IF i = 1 THEN NaN ELSE "S1"]] :
        ts \in SeqsOf(Times, 1, MaxEdaRows)}

\* the secondary rows: the first loaded row is of subject S1, the rows after
\* it (the next file of the directory) of subject S2
PpgCellSeqs ==
    {[i \in DOMAIN ts |-> [t |-> ts[i], lab |-> IF i = 1 THEN "S1" ELSE "S2"]] :
        ts \in SeqsOf(Times, 1, MaxPpgRows)}

\* a loaded table that lacks the DateTime column
NoKeyFrame(feature) ==
    [columns |-> {feature}, rows |-> <<[c \in {feature} |-> "v"]>>]

EdaInputs(cfg) ==
    {Frame("EDA_Clean", EdaLabelColumns(cfg), cells) :
        cells \in EdaCellSeqs}

PpgInputs(cfg) ==
    {Frame("PPG_Rate", PpgLabelColumns(cfg), cells) :
        cells \in PpgCellSeqs}

MergeInit ==
    /\ eda_data = EmptyFrame
    /\ ppg_data = EmptyFrame
    /\ eda_df = EmptyFrame
    /\ ppg_df = EmptyFrame
    /\ right_indexer = <<>>
    /\ merged = EmptyFrame
    /\ combined_df = EmptyFrame
    /\ mpc = "load"

\* main(): eda_data = load_all_csv_from_dir(...); ppg_data = load_all_csv_from_dir(...)
LoadData ==
    /\ UNCHANGED <<procVars, mainVars, hrvVars, tsVars, walkVars>>
    /\ mpc = "load"
    /\ \/ \E cfg \in Configs :
            /\ eda_data' \in EdaInputs(cfg)
            /\ ppg_data' \in PpgInputs(cfg)
       \/ /\ eda_data' \in {EmptyFrame, NoKeyFrame("EDA_Clean")} \cup EdaInputs("plain")
          /\ ppg_data' \in {EmptyFrame, NoKeyFrame("PPG_Rate")}
       \/ /\ eda_data' \in {EmptyFrame, NoKeyFrame("EDA_Clean")}
          /\ ppg_data' \in PpgInputs("plain")
    /\ mpc' = "merge"
    /\ UNCHANGED <<eda_df, ppg_df, right_indexer, merged, combined_df>>

\* combined_data = merge_eda_ppg(eda_data, ppg_data); eda_df and ppg_df are
\* the function's tables after the renaming and the sort by DateTime
MergeEdaPpg ==
    /\ UNCHANGED <<procVars, mainVars, hrvVars, tsVars, walkVars>>
    /\ mpc = "merge"
    /\ IF IsEmpty(eda_data) \/ IsEmpty(ppg_data)
          \/ "DateTime" \notin eda_data.columns \/ "DateTime" \notin ppg_data.columns
       THEN /\ combined_df' = EmptyFrame
            /\ mpc' = "empty"
            /\ UNCHANGED <<eda_df, ppg_df, right_indexer, merged>>
       ELSE LET e0 == RenameAll(eda_data, "_eda", Len(DuplicateColumns))
                p0 == RenameAll(ppg_data, "_ppg", Len(DuplicateColumns))
            IN \E erows \in SortedPerms(e0.rows), prows \in SortedPerms(p0.rows) :
                LET e == [columns |-> e0.columns, rows |-> erows]
                    p == [columns |-> p0.columns, rows |-> prows]
                    ri == RightIndexer(erows, prows)
                    m == MergeAsof(e, p, ri)
                IN /\ eda_df' = e
                   /\ ppg_df' = p
                   /\ right_indexer' = ri
                   /\ merged' = m
                   /\ combined_df' = CoalesceAll(m, Len(DuplicateColumns))
                   /\ mpc' = "merged"
    /\ UNCHANGED <<eda_data, ppg_data>>

MergeNext == LoadData \/ MergeEdaPpg

(***************************************************************************)
(* process_ppg_file: resample to 1 second and save                         *)
(***************************************************************************)
MaxSamples == 3
\* largest timestamp (in ticks) of a sample of a recording
MaxSampleTime == 5

RECURSIVE GCD(_, _)
GCD(a, b) == IF b = 0 THEN a ELSE GCD(b, a % b)

\* the fraction n/d (d > 0) in lowest terms
Rat(n, d) ==
    LET g == GCD(Abs(n), d)
    IN IF n = 0 THEN [num |-> 0, den |-> 1] ELSE [num |-> n \div g, den |-> d \div g]

NaNValue == [nan |-> TRUE]

RECURSIVE SumOver(_, _)
SumOver(f, S) ==
    IF S = {} THEN 0
    ELSE LET x == CHOOSE y \in S : TRUE IN f[x] + SumOver(f, S \ {x})

\* the whole-second bucket (its label, in ticks) a timestamp falls in
Bucket(t) == (t \div TicksPerSecond) * TicksPerSecond

MinOf(S) == CHOOSE x \in S : \A y \in S : x <= y
MaxOf(S) == CHOOSE x \in S : \A y \in S : y <= x

\* the index of numeric_data.resample('1s'): every whole second from the
\* bucket of the smallest timestamp to the bucket of the largest
ResampleIndex(times) ==
    LET lo == Bucket(MinOf(Range(times)))
        hi == Bucket(MaxOf(Range(times)))
    IN [k \in 1..((hi - lo) \div TicksPerSecond + 1) |->
            lo + (k - 1) * TicksPerSecond]

\* .mean(numeric_only=True) of one bucket of one numeric column
BucketMean(times, values, b) ==
    LET members == {i \in DOMAIN times : Bucket(times[i]) = b}
    IN IF members = {} THEN NaNValue
       ELSE Rat(SumOver(values, members), Cardinality(members))

\* pd.concat([resampled_data, object_cols], axis=1): the row labels of the
\* result are the union of the two indexes; resampled_data is indexed by
\* timestamps and object_cols by the positions 0..n-1 of the samples
ConcatIndex(bucketIndex, n) ==
    [k \in 1..(Len(bucketIndex) + n) |->
        IF k <= Len(bucketIndex) THEN [ts |-> bucketIndex[k]]
        ELSE [pos |-> k - Len(bucketIndex) - 1]]

\* the table after the resample, the concat and the label assignment;
\* "value" is the numeric signal column, label the subject's label
ResampledTable(rows, label) ==
    LET times == [i \in DOMAIN rows |-> rows[i].t]
        values == [i \in DOMAIN rows |-> rows[i].v]
        index == ConcatIndex(ResampleIndex(times), Len(rows))
    IN [index |-> index,
        rows |-> [k \in DOMAIN index |->
                    [value |-> IF "ts" \in DOMAIN index[k]
                               THEN BucketMean(times, values, index[k].ts)
                               ELSE NaNValue,
                     label |-> label]]]

\* the header line of signals.to_csv(output_path, index=False)
CsvHeaderEda(columns) == columns

\* the header line of processed_data.to_csv(output_path, index=True): the
\* index label comes first; the union index of the concat has no name
CsvHeaderVi(columns) == <<"">> \o columns

\* the header line of signals.to_csv(output_path, index=False) in
\* ppg-process.py, where DateTime is still a column
CsvHeaderPpg(columns) == <<"DateTime">> \o columns

Scripts == {"eda", "vi", "ppg"}

SampleRows == SeqsOf([t : 0..MaxSampleTime, v : {2, 4, 6}], 1, MaxSamples)

NoCsv == [written |-> FALSE, header |-> <<>>, nrows |-> 0]

ProcInit ==
    /\ script = "none"
    /\ signals = <<>>
    /\ data_len = 0
    /\ final_data = [index |-> <<>>, rows |-> <<>>]
    /\ csv = NoCsv
    /\ ppc = "load"

\* the table process_ppg_file holds when it reaches the resample (the save,
\* in ppg-process.py)
LoadSignals ==
    /\ UNCHANGED <<mergeVars, mainVars, hrvVars, tsVars, walkVars>>
    /\ ppc = "load"
    /\ script' \in Scripts
    /\ signals' \in SampleRows
    \* len(data): the signal-processing call returns one row per sample of
    \* the recording, or a table of another length
    /\ data_len' \in {Len(signals'), Len(signals') + 1}
    /\ ppc' = "resample"
    /\ UNCHANGED <<final_data, csv>>

\* eda-process.py, lines 81-113: on a length mismatch the function prints a
\* warning and returns; otherwise it resamples and saves
ResampleEda ==
    /\ UNCHANGED <<mergeVars, mainVars, hrvVars, tsVars, walkVars>>
    /\ ppc = "resample"
    /\ script = "eda"
    /\ IF Len(signals) # data_len
       THEN /\ ppc' = "skipped"
            /\ UNCHANGED <<final_data, csv>>
       ELSE /\ final_data' = ResampledTable(signals, "S1")
            /\ csv' = [written |-> TRUE,
                       header |-> CsvHeaderEda(<<"EDA_Clean", "id">>),
                       nrows |-> Len(final_data'.rows)]
            /\ ppc' = "saved"
    /\ UNCHANGED <<script, signals, data_len>>

\* ppg-process_vi.py, lines 107-230: there is no length check; assigning
\* data['DateTime'].values to a signals table of another length raises
\* ValueError (line 109), so nothing is written
ResampleVi ==
    /\ UNCHANGED <<mergeVars, mainVars, hrvVars, tsVars, walkVars>>
    /\ ppc = "resample"
    /\ script = "vi"
    /\ IF Len(signals) # data_len
       THEN /\ ppc' = "raised"
            /\ UNCHANGED <<final_data, csv>>
       ELSE /\ final_data' = ResampledTable(signals, "S1")
            /\ csv' = [written |-> TRUE,
                       header |-> CsvHeaderVi(<<"PPG_Clean", "id">>),
                       nrows |-> Len(final_data'.rows)]
            /\ ppc' = "saved"
    /\ UNCHANGED <<script, signals, data_len>>

\* ppg-process.py, lines 97-118: no resample; the file is written when at
\* least one window gave an HRV record. A length mismatch (line 109) only
\* prints a warning: the to_csv of line 115 follows it unconditionally
SavePpg ==
    /\ UNCHANGED <<mergeVars, mainVars, hrvVars, tsVars, walkVars>>
    /\ ppc = "resample"
    /\ script = "ppg"
    /\ \E hrv_found \in BOOLEAN :
        IF hrv_found
        THEN /\ csv' = [written |-> TRUE,
                        header |-> CsvHeaderPpg(<<"PPG_Clean", "id">>),
                        nrows |-> Len(signals)]
             /\ ppc' = "saved"
        ELSE /\ csv' = NoCsv
             /\ ppc' = "skipped"
    /\ UNCHANGED <<script, signals, data_len, final_data>>

ProcNext == LoadSignals \/ ResampleEda \/ ResampleVi \/ SavePpg

(***************************************************************************)
(* main() of a processing script and the try/except of process_ppg_file    *)
(***************************************************************************)
MaxFiles == 3

\* what the body of the try block does with one file: it completes ("ok"),
\* returns early because the subject has no label ("nolabel"), or raises an
\* exception ("error": a missing column, a failing neurokit2 call, ...)
FileKinds == {"ok", "nolabel", "error"}

\* whether the except block of process_ppg_file itself raises: the handler of
\* ppg-process_vi.py calls traceback.format_exc(), and the script never
\* imports traceback, so evaluating it raises NameError inside the handler
HandlerRaises(s) == s = "vi"

\* process_ppg_file(file_path): "returned" or "raised"
ProcessPpgFile(s, kind) ==
    IF kind = "error" /\ HandlerRaises(s) THEN "raised" ELSE "returned"

MainInit ==
    /\ mscript = "none"
    /\ files = <<>>
    /\ idx = 0
    /\ handed = <<>>
    /\ mainpc = "start"

\* files = list(RAW_PATH.glob('*.csv')); if not files: return
StartMain ==
    /\ UNCHANGED <<mergeVars, procVars, hrvVars, tsVars, walkVars>>
    /\ mainpc = "start"
    /\ mscript' \in Scripts
    /\ files' \in SeqsOf(FileKinds, 0, MaxFiles)
    /\ idx' = 1
    /\ mainpc' = IF files' = <<>> THEN "returned" ELSE "loop"
    /\ UNCHANGED handed

\* one iteration of: for file_path in files: process_ppg_file(file_path)
ProcessNextFile ==
    /\ UNCHANGED <<mergeVars, procVars, hrvVars, tsVars, walkVars>>
    /\ mainpc = "loop"
    /\ idx <= Len(files)
    /\ handed' = Append(handed, idx)
    /\ IF ProcessPpgFile(mscript, files[idx]) = "raised"
       THEN /\ mainpc' = "raised"
            /\ idx' = idx
       ELSE /\ mainpc' = "loop"
            /\ idx' = idx + 1
    /\ UNCHANGED <<mscript, files>>

\* the for loop is exhausted: main returns
MainReturn ==
    /\ UNCHANGED <<mergeVars, procVars, hrvVars, tsVars, walkVars>>
    /\ mainpc = "loop"
    /\ idx > Len(files)
    /\ mainpc' = "returned"
    /\ UNCHANGED <<mscript, files, idx, handed>>

MainNext == StartMain \/ ProcessNextFile \/ MainReturn

(***************************************************************************)
(* process_timestamp                                                       *)
(***************************************************************************)
MaxTsRows == 3
MaxEpoch == 3

\* pd.to_datetime(x, unit='s').tz_localize('UTC').tz_convert('Asia/Bangkok'):
\* the instant x seconds after the epoch, shown in the Bangkok zone
ToDateTime(x) == [instant |-> x, tz |-> "Asia/Bangkok"]

\* process_timestamp(df): adds the DateTime column, row by row; the rows
\* keep the order they have in the file
ProcessTimestamp(col) == [i \in DOMAIN col |-> ToDateTime(col[i])]

TsInit ==
    /\ ts_in = <<>>
    /\ ts_out = <<>>
    /\ tpc = "load"

\* data = pd.read_csv(file_path); data = data.dropna().reset_index(drop=True)
ReadRecording ==
    /\ UNCHANGED <<mergeVars, procVars, mainVars, hrvVars, walkVars>>
    /\ tpc = "load"
    /\ ts_in' \in SeqsOf(0..MaxEpoch, 0, MaxTsRows)
    /\ tpc' = "loaded"
    /\ UNCHANGED ts_out

\* data = process_timestamp(data)
NormalizeTimestamps ==
    /\ UNCHANGED <<mergeVars, procVars, mainVars, hrvVars, walkVars>>
    /\ tpc = "loaded"
    /\ ts_out' = ProcessTimestamp(ts_in)
    /\ tpc' = "normalized"
    /\ UNCHANGED ts_in

TsNext == ReadRecording \/ NormalizeTimestamps

(***************************************************************************)
(* ppg-process_vi.py: peaks, RR series, global and rolling HRV columns     *)
(***************************************************************************)
MaxSamplesVi == 14
\* recordings of at most MaxDense samples take every peak mask, longer ones
\* the masks with at most MaxMissed samples that are no peak
MaxDense == 6
MaxMissed == 1

SAMPLING_RATE == 100
window_size == 300
PeakThreshold == 10
RRPeakThreshold == 2
WindowRRThreshold == 5
LargeDataset == 10000
Stride == 100

\* ---- exact arithmetic on fractions [num, den] ----
RAdd(a, b) ==
    LET g == GCD(a.den, b.den)
    IN Rat(a.num * (b.den \div g) + b.num * (a.den \div g), (a.den \div g) * b.den)
RNeg(a) == [num |-> -a.num, den |-> a.den]
RSub(a, b) == RAdd(a, RNeg(b))
RMul(a, b) ==
    LET x == Rat(a.num, b.den)
        y == Rat(b.num, a.den)
    IN Rat(x.num * y.num, x.den * y.den)
RDivInt(a, k) == Rat(a.num, a.den * k)
RZero == Rat(0, 1)

RECURSIVE RSum(_)
RSum(s) == IF Len(s) = 0 THEN RZero ELSE RAdd(s[1], RSum(Tail(s)))

IsNaN(v) == v = NaNValue

\* the square root of a fraction, kept symbolic
Sqrt(q) == IF q = RZero THEN RZero ELSE [sqrt |-> q]

\* the elements of a finite set of integers in ascending order
SortedSeq(S) ==
    [k \in 1..Cardinality(S) |->
        CHOOSE x \in S : Cardinality({y \in S : y < x}) = k - 1]

\* peak_indices = np.where(peaks == 1)[0]: positions counted from 0
PeakIndices(mask) == SortedSeq({i - 1 : i \in {j \in DOMAIN mask : mask[j] = 1}})

\* rr_intervals = np.diff(peak_indices) / SAMPLING_RATE
RRIntervals(pi) == [k \in 1..(Len(pi) - 1) |-> Rat(pi[k+1] - pi[k], SAMPLING_RATE)]

RRDataFrameFirstPeak(pi, dt) ==
    [k \in 1..(Len(pi) - 1) |->
        [RR |-> RRIntervals(pi)[k], DateTime |-> dt[pi[k] + 1]]]

\* rr_df: each interval with data['DateTime'].iloc[peak_indices[1:]]
RRDataFrame(pi, dt) ==
    [k \in 1..(Len(pi) - 1) |->
        [RR |-> RRIntervals(pi)[k], DateTime |-> dt[pi[k+1] + 1]]]

\* sample_indices (positions counted from 0)
SampleIndices(n) ==
    IF n > LargeDataset THEN {i \in 0..(n-1) : i % Stride = 0} ELSE 0..(n-1)

\* window_rr: the intervals with window_start <= DateTime <= window_end
WindowRR(rr, current_time) ==
    LET window_start == current_time - window_size \div 2
        window_end == current_time + window_size \div 2
        sel == SelectSeq(rr, LAMBDA r : r.DateTime >= window_start
                                        /\ r.DateTime <= window_end)
    IN [k \in DOMAIN sel |-> sel[k].RR]

\* np.mean(window_rr)
MeanRR(w) == RDivInt(RSum(w), Len(w))

\* np.sqrt(np.mean(np.diff(window_rr) ** 2))
RMSSDOf(w) ==
    LET d == [k \in 1..(Len(w) - 1) |-> RSub(w[k+1], w[k])]
        sq == [k \in DOMAIN d |-> RMul(d[k], d[k])]
    IN Sqrt(RDivInt(RSum(sq), Len(sq)))

\* np.std(window_rr)
SDNNOf(w) ==
    LET m == MeanRR(w)
        sq == [k \in DOMAIN w |-> RMul(RSub(w[k], m), RSub(w[k], m))]
    IN Sqrt(RDivInt(RSum(sq), Len(w)))

EnoughWindowRR(k) == k > WindowRRThreshold

\* the three rolling columns before the fill
RollingColumns(rr, dt) ==
    LET n == Len(dt)
        w(i) == WindowRR(rr, dt[i])
        on(i) == (i - 1) \in SampleIndices(n) /\ EnoughWindowRR(Len(w(i)))
    IN [RR_Mean |-> [i \in 1..n |-> IF on(i) THEN MeanRR(w(i)) ELSE NaNValue],
        RMSSD |-> [i \in 1..n |-> IF on(i)
                        THEN (IF Len(w(i)) > 1 THEN RMSSDOf(w(i)) ELSE NaNValue)
                        ELSE NaNValue],
        SDNN |-> [i \in 1..n |-> IF on(i) THEN SDNNOf(w(i)) ELSE NaNValue]]

\* a + (b - a) * num / den, for 0 <= num <= den
Lerp(a, b, num, den) ==
    IF num = 0 \/ a = b THEN a
    ELSE IF "num" \in DOMAIN a /\ "num" \in DOMAIN b
    THEN RAdd(a, RMul(RSub(b, a), Rat(num, den)))
    ELSE [from |-> a, to |-> b, weight |-> Rat(num, den)]

InterpolateInsideOnly(col) ==
    LET valid == {i \in DOMAIN col : ~IsNaN(col[i])}
    IN [k \in DOMAIN col |->
        IF valid = {} \/ k \in valid THEN col[k]
        ELSE IF (\A i \in valid : k < i) \/ (\A i \in valid : i < k) THEN NaNValue
        ELSE LET lo == MaxOf({i \in valid : i < k})
                 hi == MinOf({i \in valid : i > k})
             IN Lerp(col[lo], col[hi], k - lo, hi - lo)]

\* Series.interpolate(method='linear'): np.interp over the row positions,
\* which holds the last valid value to the right of it; the NaNs before the
\* first valid value are kept (limit_direction defaults to 'forward')
Interpolate(col) ==
    LET valid == {i \in DOMAIN col : ~IsNaN(col[i])}
    IN [k \in DOMAIN col |->
        IF valid = {} \/ k \in valid THEN col[k]
        ELSE IF \A i \in valid : k < i THEN NaNValue
        ELSE IF \A i \in valid : i < k THEN col[MaxOf(valid)]
        ELSE LET lo == MaxOf({i \in valid : i < k})
                 hi == MinOf({i \in valid : i > k})
             IN Lerp(col[lo], col[hi], k - lo, hi - lo)]

HrvMetrics == {"HRV_ULF", "HRV_VLF", "HRV_LF", "HRV_HF", "HRV_VHF", "HRV_TP",
               "HRV_LFHF", "HRV_LFn", "HRV_HFn", "HRV_LnHF"}

RollingMetrics == {"RR_Mean", "RMSSD", "SDNN"}

\* the columns of hrv_all that neurokit2 may return among hrv_metrics
HrvReturned == {HrvMetrics, HrvMetrics \ {"HRV_ULF"}, {}}

EnoughPeaksLoose(k) == k > RRPeakThreshold

\* if len(peak_indices) > 10
EnoughPeaks(k) == k > PeakThreshold

\* the metrics the else branch sets to NaN
ElseMetrics == HrvMetrics \cup RollingMetrics

Constant(n, v) == [i \in 1..n |-> v]

\* processed_data after lines 112-208, given the columns neurokit2 returned
ProcessedData(mask, dt, returned, rr, roll) ==
    LET n == Len(mask)
        pi == PeakIndices(mask)
    IN IF EnoughPeaks(Len(pi))
       THEN LET cols == {"PPG_Peaks"} \cup HrvMetrics
                           \cup (IF Len(pi) > RRPeakThreshold THEN RollingMetrics ELSE {})
            IN [c \in cols |->
                 IF c = "PPG_Peaks" THEN mask
                 ELSE IF c \in HrvMetrics
                 THEN Constant(n, IF c \in returned THEN [ext |-> c] ELSE NaNValue)
                 ELSE Interpolate(roll[c])]
       ELSE [c \in {"PPG_Peaks"} \cup ElseMetrics |->
                 IF c = "PPG_Peaks" THEN mask ELSE Constant(n, NaNValue)]

\* ---- the recordings ----
Spacings == {window_size \div 6, window_size \div 4}

Masks(n) ==
    {[i \in 1..n |-> IF i \in zeros THEN 0 ELSE 1] :
        zeros \in {z \in SUBSET (1..n) : n > MaxDense => Cardinality(z) <= MaxMissed}}

\* timestamps (seconds) of n samples spaced by s, with a pause of one window
\* after the sample pauseAt (0: no pause)
TimeAxis(n, s, pauseAt) ==
    [i \in 1..n |-> (i - 1) * s + IF pauseAt > 0 /\ i > pauseAt THEN window_size ELSE 0]

NoRR == [computed |-> FALSE, rows |-> <<>>]
NoRolling == [computed |-> FALSE, RR_Mean |-> <<>>, RMSSD |-> <<>>, SDNN |-> <<>>]

HrvInit ==
    /\ data = <<>>
    /\ peaks = <<>>
    /\ rr_df = NoRR
    /\ rolling = NoRolling
    /\ processed_data = <<>>
    /\ hpc = "load"

\* lines 66-113: the recording is read, its timestamps resolved, and
\* nk.ppg_process returns the peak mask
DetectPeaks ==
    /\ UNCHANGED <<mergeVars, procVars, mainVars, tsVars, walkVars>>
    /\ hpc = "load"
    /\ \E n \in 0..MaxSamplesVi, s \in Spacings :
        \E pauseAt \in (IF n > MaxDense THEN 0..(n-1) ELSE {0}) :
            /\ data' = TimeAxis(n, s, pauseAt)
            /\ peaks' \in Masks(n)
    /\ hpc' = "peaks"
    /\ UNCHANGED <<rr_df, rolling, processed_data>>

\* lines 112-208
ComputeHrv ==
    /\ UNCHANGED <<mergeVars, procVars, mainVars, tsVars, walkVars>>
    /\ hpc = "peaks"
    /\ \E returned \in HrvReturned :
        LET pi == PeakIndices(peaks)
            rrOn == EnoughPeaks(Len(pi)) /\ Len(pi) > RRPeakThreshold
            rr == IF rrOn THEN RRDataFrame(pi, data) ELSE <<>>
            roll == IF rrOn THEN RollingColumns(rr, data)
                    ELSE [RR_Mean |-> <<>>, RMSSD |-> <<>>, SDNN |-> <<>>]
        IN /\ rr_df' = [computed |-> rrOn, rows |-> rr]
           /\ rolling' = [computed |-> rrOn, RR_Mean |-> roll.RR_Mean,
                          RMSSD |-> roll.RMSSD, SDNN |-> roll.SDNN]
           /\ processed_data' = ProcessedData(peaks, data, returned, rr, roll)
    /\ hpc' = "done"
    /\ UNCHANGED <<data, peaks>>

HrvNext == DetectPeaks \/ ComputeHrv

(***************************************************************************)
(* ppg-process.py: the walk over the tumbling windows                      *)
(***************************************************************************)
MaxWalkRows == 4
\* largest timestamp of a sample, in half windows
MaxWalkTime == 6

WINDOW_SIZE == 300

\* the timestamps a sample can have (seconds): the multiples of half a window
WalkTimes == {k * (WINDOW_SIZE \div 2) : k \in 0..MaxWalkTime}

\* the recordings: samples in the order of their timestamps
Recordings ==
    {ts \in SeqsOf(WalkTimes, 1, MaxWalkRows) :
        \A i \in 1..(Len(ts) - 1) : ts[i] <= ts[i+1]}

\* mask = (timestamps >= start_time) & (timestamps < window_end)
WindowMask(ts, start, window_end) ==
    [i \in DOMAIN ts |-> ts[i] >= start /\ ts[i] < window_end]

\* window_peaks = peaks[mask]: the rows of the peak column inside the window
WindowPeaks(mask) == {i \in DOMAIN mask : mask[i]}

\* if len(window_peaks) > 1
HasWindowPeaks(mask) == Cardinality(WindowPeaks(mask)) > 1

WalkInit ==
    /\ timestamps = <<>>
    /\ window_mask = <<>>
    /\ start_time = 0
    /\ end_time = 0
    /\ hrv_results = <<>>
    /\ visited = <<>>
    /\ wpc = "load"

\* lines 58-81: the recording is read; the walk starts at the first
\* timestamp and is bounded by the last
StartWalk ==
    /\ UNCHANGED <<mergeVars, procVars, mainVars, hrvVars, tsVars>>
    /\ wpc = "load"
    /\ timestamps' \in Recordings
    /\ start_time' = timestamps'[1]
    /\ end_time' = timestamps'[Len(timestamps')]
    /\ hrv_results' = <<>>
    /\ wpc' = "walk"
    /\ UNCHANGED <<window_mask, visited>>

\* lines 84-95: one iteration of the while loop. nk.hrv_frequency either
\* returns one row of band powers (defined or undefined) or raises; an
\* exception leaves the loop and is caught at line 120
VisitWindow ==
    /\ UNCHANGED <<mergeVars, procVars, mainVars, hrvVars, tsVars>>
    /\ wpc = "walk"
    /\ start_time < end_time
    /\ LET window_end == start_time + WINDOW_SIZE
           mask == WindowMask(timestamps, start_time, window_end)
       IN /\ window_mask' = mask
          /\ visited' = Append(visited, [StartTime |-> start_time,
                                         EndTime |-> window_end])
          /\ IF HasWindowPeaks(mask)
             THEN \E hrv_indices \in {"values", "nan", "raise"} :
                    IF hrv_indices = "raise"
                    THEN /\ wpc' = "error"
                         /\ UNCHANGED <<hrv_results, start_time>>
                    ELSE /\ hrv_results' =
                                Append(hrv_results,
                                       [HRV |-> hrv_indices,
                                        StartTime |-> start_time,
                                        EndTime |-> window_end])
                         /\ start_time' = window_end
                         /\ wpc' = "walk"
             ELSE /\ start_time' = window_end
                  /\ wpc' = "walk"
                  /\ UNCHANGED hrv_results
    /\ UNCHANGED <<timestamps, end_time>>

\* lines 84, 98-118: the loop condition fails; the file is written when
\* hrv_results is not empty
EndWalk ==
    /\ UNCHANGED <<mergeVars, procVars, mainVars, hrvVars, tsVars>>
    /\ wpc = "walk"
    /\ ~(start_time < end_time)
    /\ wpc' = IF hrv_results # <<>> THEN "saved" ELSE "novalid"
    /\ UNCHANGED <<timestamps, window_mask, start_time, end_time, hrv_results,
                   visited>>

WalkNext == StartWalk \/ VisitWindow \/ EndWalk

(***************************************************************************)
(* Properties of merge_eda_ppg                                             *)
(***************************************************************************)
\* the name a column of the sorted secondary table has in the merged table
RightName(c) == IF c \in eda_df.columns THEN c \o "_ppg" ELSE c
\* the name a column of the sorted primary table has in the merged table
LeftName(c) == IF c \in ppg_df.columns THEN c \o "_eda" ELSE c

Distance(i, j) == Abs(eda_df.rows[i]["DateTime"] - ppg_df.rows[j]["DateTime"])

MinDistance(i) == MinOf({Distance(i, j) : j \in DOMAIN ppg_df.rows})

\* the columns of the fused table that only the secondary table feeds
SecondaryOnly ==
    {c \in combined_df.columns :
        /\ c # "DateTime"
        /\ c \notin eda_df.columns
        /\ ~(c \in LabelAttrs /\ (c \o "_eda") \in merged.columns)}

\* C1: every primary row gets the secondary row nearest in time, the earlier
\* one when two are equally near; when the nearest is more than 1 second
\* away it gets none and its secondary-only columns are undefined
C1_NearestWithinTolerance ==
    mpc = "merged" =>
        \A i \in DOMAIN eda_df.rows :
            LET ri == right_indexer[i]
            IN IF MinDistance(i) > Tolerance
               THEN /\ ri = 0
                    /\ \A c \in SecondaryOnly : combined_df.rows[i][c] = NaN
                    /\ \A c \in ppg_df.columns \ {"DateTime"} :
                            merged.rows[i][RightName(c)] = NaN
               ELSE /\ ri \in DOMAIN ppg_df.rows
                    /\ Distance(i, ri) = MinDistance(i)
                    /\ \A j \in DOMAIN ppg_df.rows :
                            Distance(i, j) = MinDistance(i) =>
                                ppg_df.rows[ri]["DateTime"] <= ppg_df.rows[j]["DateTime"]
                    /\ \A c \in ppg_df.columns \ {"DateTime"} :
                            merged.rows[i][RightName(c)] = ppg_df.rows[ri][c]

\* a primary row half way between two secondary rows within the tolerance
C1_Witness ==
    /\ mpc = "merged"
    /\ \E i \in DOMAIN eda_df.rows : \E j, k \in DOMAIN ppg_df.rows :
        /\ ppg_df.rows[j]["DateTime"] < eda_df.rows[i]["DateTime"]
        /\ eda_df.rows[i]["DateTime"] < ppg_df.rows[k]["DateTime"]
        /\ Distance(i, j) = Distance(i, k)
        /\ Distance(i, j) <= Tolerance
        /\ right_indexer[i] = j
        /\ ppg_df.rows[j]["id"] # ppg_df.rows[k]["id"]

\* C4: a label attribute present under both suffixed names becomes one
\* unsuffixed column, the primary value when defined, else the secondary
\* value, and both suffixed columns are gone
C4_CoalesceLeftPreferred ==
    mpc = "merged" =>
        \A a \in LabelAttrs :
            ((a \o "_eda") \in merged.columns /\ (a \o "_ppg") \in merged.columns) =>
                /\ a \in combined_df.columns
                /\ (a \o "_eda") \notin combined_df.columns
                /\ (a \o "_ppg") \notin combined_df.columns
                /\ \A i \in DOMAIN combined_df.rows :
                        combined_df.rows[i][a] =
                            IF merged.rows[i][a \o "_eda"] # NaN
                            THEN merged.rows[i][a \o "_eda"]
                            ELSE merged.rows[i][a \o "_ppg"]

\* one fused row takes the primary value although the secondary differs, and
\* another falls back to the secondary value
C4_Witness ==
    /\ mpc = "merged"
    /\ "bmi_eda" \in merged.columns /\ "bmi_ppg" \in merged.columns
    /\ \E i, j \in DOMAIN merged.rows :
        /\ merged.rows[i]["bmi_eda"] = "S1" /\ merged.rows[i]["bmi_ppg"] = "S2"
        /\ combined_df.rows[i]["bmi"] = "S1"
        /\ merged.rows[j]["bmi_eda"] = NaN /\ merged.rows[j]["bmi_ppg"] = "S2"
        /\ combined_df.rows[j]["bmi"] = "S2"

\* how often a row occurs in a sequence of rows
Occurrences(rows, r) == Cardinality({i \in DOMAIN rows : rows[i] = r})

\* C5: the fused table has exactly one row per primary row, matched or not:
\* row i of the result carries the i-th primary row (in timestamp order), and
\* those rows are the loaded primary rows, each as often as it was loaded
C5_OneRowPerPrimaryRow ==
    mpc = "merged" =>
        /\ Len(combined_df.rows) = Len(eda_data.rows)
        /\ Len(eda_df.rows) = Len(eda_data.rows)
        /\ \A i \in DOMAIN eda_data.rows :
                Occurrences(eda_df.rows, eda_data.rows[i])
                    = Occurrences(eda_data.rows, eda_data.rows[i])
        /\ \A i \in DOMAIN eda_df.rows :
                /\ combined_df.rows[i]["DateTime"] = eda_df.rows[i]["DateTime"]
                /\ \A c \in eda_df.columns \ {"DateTime"} :
                        merged.rows[i][LeftName(c)] = eda_df.rows[i][c]

\* a primary row without a match is kept next to two primary rows that share
\* one secondary row
C5_Witness ==
    /\ mpc = "merged"
    /\ Len(combined_df.rows) = 3
    /\ \E i, j, k \in DOMAIN eda_df.rows :
        /\ i # j /\ j # k /\ i # k
        /\ right_indexer[i] = 0
        /\ right_indexer[j] # 0
        /\ right_indexer[j] = right_indexer[k]


\* C16: a fused row never combines a primary row of one subject with a
\* secondary row of another subject: when a primary row was extended with a
\* secondary row and both carry a subject id, the two ids are equal
C16_SameSubjectOnly ==
    mpc = "merged" =>
        \A i \in DOMAIN eda_df.rows :
            (/\ right_indexer[i] # 0
             /\ "id_eda" \in eda_df.columns
             /\ "id_ppg" \in ppg_df.columns
             /\ eda_df.rows[i]["id_eda"] # NaN
             /\ ppg_df.rows[right_indexer[i]]["id_ppg"] # NaN) =>
                /\ eda_df.rows[i]["id_eda"] = ppg_df.rows[right_indexer[i]]["id_ppg"]
                /\ merged.rows[i]["id_eda"] = merged.rows[i]["id_ppg"]

(***************************************************************************)
(* Properties of the resample and of the saved files                       *)
(***************************************************************************)
\* the whole-second buckets from the first to the last sample of signals
WholeSeconds ==
    LET ts == {signals[i].t : i \in DOMAIN signals}
    IN {b \in Bucket(MinOf(ts))..Bucket(MaxOf(ts)) : b % TicksPerSecond = 0}

\* C2: the resampled table has exactly one row per whole second between the
\* first and the last sample and no other row; a second without a sample
\* has its numeric column undefined
C2_OneRowPerWholeSecond ==
    (ppc = "saved" /\ script \in {"eda", "vi"}) =>
        /\ Len(final_data.rows) = Cardinality(WholeSeconds)
        /\ \A k \in DOMAIN final_data.index :
                final_data.index[k] \in {[ts |-> b] : b \in WholeSeconds}
        /\ \A b \in WholeSeconds :
                /\ Cardinality({k \in DOMAIN final_data.index :
                                    final_data.index[k] = [ts |-> b]}) = 1
                /\ (\A i \in DOMAIN signals : Bucket(signals[i].t) # b) =>
                        \A k \in DOMAIN final_data.index :
                            final_data.index[k] = [ts |-> b] =>
                                final_data.rows[k].value = NaNValue

\* C11: in every processing path a recording whose derived signals table has
\* another number of rows than the loaded recording is skipped: once the
\* function is done with it, no output file was written
C11_MismatchSkipsFile ==
    (ppc \in {"saved", "skipped", "raised"} /\ Len(signals) # data_len) =>
        ~csv.written

\* the loaded stream already has one row per whole second: consecutive
\* seconds, each row exactly on its second
OneSecondCadence ==
    \A i \in DOMAIN signals :
        signals[i].t = signals[1].t + (i - 1) * TicksPerSecond
            /\ signals[i].t % TicksPerSecond = 0

\* C12: resampling a stream that already has one row per whole second gives
\* the same rows back: as many rows, the same timestamps in the same order,
\* and in each the value of its single contributing row
C12_ResampleIdempotent ==
    (ppc = "saved" /\ script \in {"eda", "vi"} /\ OneSecondCadence) =>
        /\ Len(final_data.rows) = Len(signals)
        /\ final_data.index = [i \in DOMAIN signals |-> [ts |-> signals[i].t]]
        /\ \A i \in DOMAIN signals :
                final_data.rows[i].value = Rat(signals[i].v, 1)

\* C10: every processed file that is written has a column named DateTime
C10_SavedFileHasDateTime ==
    csv.written => \E k \in DOMAIN csv.header : csv.header[k] = "DateTime"

(***************************************************************************)
(* Properties of the main loop                                             *)
(***************************************************************************)
\* C3: a file that fails never aborts the batch: main does not end by an
\* exception, and when it returns every file was handed to process_ppg_file
C3_BatchNeverAborts ==
    /\ mainpc # "raised"
    /\ mainpc = "returned" => handed = [k \in 1..Len(files) |-> k]

(***************************************************************************)
(* Properties of process_timestamp                                         *)
(***************************************************************************)
\* C8: after process_timestamp the timestamps are non-decreasing, whatever
\* the order of the rows of the file, and equal timestamps keep their order
C8_TimestampsNonDecreasing ==
    tpc = "normalized" =>
        /\ \A i \in 1..(Len(ts_out) - 1) : ts_out[i].instant <= ts_out[i+1].instant
        /\ Len(ts_out) = Len(ts_in)
        /\ \A x \in Range(ts_in) :
                Cardinality({i \in DOMAIN ts_out : ts_out[i] = ToDateTime(x)})
                    = Cardinality({i \in DOMAIN ts_in : ts_in[i] = x})

(***************************************************************************)
(* Properties of the HRV columns of ppg-process_vi.py                      *)
(***************************************************************************)
PeakCount == Cardinality({i \in DOMAIN peaks : peaks[i] = 1})

\* C6: the thirteen HRV columns are present for every peak count, and with
\* fewer than 10 peaks each of them is undefined in every row
C6_HrvColumnsAlwaysPresent ==
    hpc = "done" =>
        /\ (HrvMetrics \cup RollingMetrics) \subseteq DOMAIN processed_data
        /\ \A c \in HrvMetrics \cup RollingMetrics :
                /\ Len(processed_data[c]) = Len(data)
                /\ PeakCount < 10 =>
                        \A i \in 1..Len(data) : processed_data[c][i] = NaNValue

\* a recording with exactly two peaks among more samples
C6_Witness ==
    /\ hpc = "done"
    /\ PeakCount = 2
    /\ Len(data) > 3
    /\ processed_data["RMSSD"][1] = NaNValue

\* the rolling column c before and after the fill
Pre(c) == rolling[c]
Post(c) == processed_data[c]
Valid(c) == {i \in DOMAIN Pre(c) : Pre(c)[i] # NaNValue}

\* the weighted mean of the two neighbours of k, for fractions
Between(a, b, lo, k, hi) ==
    RAdd(RMul(a, Rat(hi - k, hi - lo)), RMul(b, Rat(k - lo, hi - lo)))

\* the fill between two computed samples, and at the computed samples
FillInside(c) ==
    \A k \in DOMAIN Pre(c) :
        /\ k \in Valid(c) => Post(c)[k] = Pre(c)[k]
        /\ \A lo, hi \in Valid(c) :
              (lo < k /\ k < hi /\ \A m \in (lo+1)..(hi-1) : m \notin Valid(c)) =>
                 IF c = "RR_Mean"
                 THEN Post(c)[k] = Between(Pre(c)[lo], Pre(c)[hi], lo, k, hi)
                 ELSE Post(c)[k] = Lerp(Pre(c)[lo], Pre(c)[hi], k - lo, hi - lo)

\* 0.05 at sample 0 and 0.07 at sample 10
ExampleColumn ==
    [k \in 1..11 |-> IF k = 1 THEN Rat(5, 100)
                      ELSE IF k = 11 THEN Rat(7, 100) ELSE NaNValue]

\* C7 (as stated): between two computed samples the fill is the linear
\* interpolation, and before the first and after the last computed sample
\* the metric stays undefined
C7_NoExtrapolation ==
    (hpc = "done" /\ rolling.computed) =>
        \A c \in RollingMetrics :
            /\ FillInside(c)
            /\ \A k \in DOMAIN Pre(c) :
                  ((\A i \in Valid(c) : k < i) \/ (\A i \in Valid(c) : i < k)) =>
                      Post(c)[k] = NaNValue

\* C7 (amended): between two computed samples the fill is the linear
\* interpolation (0.05 at sample 0 and 0.07 at sample 10 give 0.06 at sample
\* 5); before the first computed sample the metric stays undefined; after
\* the last computed sample it takes the last computed value
C7_FillForward ==
    /\ Interpolate(ExampleColumn)[6] = Rat(6, 100)
    /\ (hpc = "done" /\ rolling.computed) =>
        \A c \in RollingMetrics :
            /\ FillInside(c)
            /\ \A k \in DOMAIN Pre(c) :
                /\ (\A i \in Valid(c) : k < i) => Post(c)[k] = NaNValue
                /\ (Valid(c) # {} /\ \A i \in Valid(c) : i < k) =>
                        Post(c)[k] = Pre(c)[MaxOf(Valid(c))]

\* a recording whose RR_Mean is undefined at its first samples, computed at
\* two samples with different values and undefined between them, and
\* undefined after the last computed sample
C7_Witness ==
    /\ hpc = "done"
    /\ rolling.computed
    /\ \E lo, hi \in Valid("RR_Mean") :
        /\ lo + 1 < hi
        /\ \A m \in (lo+1)..(hi-1) : m \notin Valid("RR_Mean")
        /\ Pre("RR_Mean")[lo] # Pre("RR_Mean")[hi]
        /\ Post("RR_Mean")[lo + 1] \notin {NaNValue, Pre("RR_Mean")[lo], Pre("RR_Mean")[hi]}
    /\ 1 \notin Valid("RR_Mean")
    /\ Len(data) \notin Valid("RR_Mean")
    /\ Post("RR_Mean")[Len(data)] # NaNValue

HalfOpenWindowRR(rr, t) ==
    LET sel == SelectSeq(rr, LAMBDA r : r.DateTime >= t - 150 /\ r.DateTime < t + 150)
    IN [k \in DOMAIN sel |-> sel[k].RR]

\* C13: the rolling metrics of an evaluated sample with timestamp t are those
\* of the intervals whose second peak lies in the half-open window
\* [t - 150 s, t + 150 s): an interval whose second peak is exactly at
\* t + 150 s takes no part in them
C13_HalfOpenWindow ==
    (hpc = "done" /\ rolling.computed) =>
        \A i \in DOMAIN data :
            LET h == HalfOpenWindowRR(rr_df.rows, data[i])
            IN (i - 1) \in SampleIndices(Len(data)) =>
                /\ Pre("RR_Mean")[i] =
                        (IF EnoughWindowRR(Len(h)) THEN MeanRR(h) ELSE NaNValue)
                /\ Pre("SDNN")[i] =
                        (IF EnoughWindowRR(Len(h)) THEN SDNNOf(h) ELSE NaNValue)
                /\ Pre("RMSSD")[i] =
                        (IF EnoughWindowRR(Len(h)) THEN RMSSDOf(h) ELSE NaNValue)

\* C14: before the fill, the three rolling metrics of an evaluated sample
\* are computed exactly when its window holds at least 5 intervals: with
\* fewer all three are undefined, with exactly 5 all three are computed
C14_AtLeastFiveIntervals ==
    (hpc = "done" /\ rolling.computed) =>
        \A i \in DOMAIN data :
            (i - 1) \in SampleIndices(Len(data)) =>
                \A c \in RollingMetrics :
                    Pre(c)[i] # NaNValue
                        <=> Len(WindowRR(rr_df.rows, data[i])) >= 5

(***************************************************************************)
(* Properties of the window walk of ppg-process.py                         *)
(***************************************************************************)
WalkEnded == wpc \in {"saved", "novalid"}

\* C15: the walk emits exactly one HRV record per window it visits, tagged
\* with the StartTime and EndTime of that window, whatever the window
\* holds: no sample, one sample or more
C15_OneRecordPerWindow ==
    WalkEnded =>
        /\ Len(hrv_results) = Len(visited)
        /\ \A k \in DOMAIN visited :
                /\ hrv_results[k].StartTime = visited[k].StartTime
                /\ hrv_results[k].EndTime = visited[k].EndTime

\* C17: when the walk over a recording of at least one sample has ended, the
\* visited windows [StartTime, StartTime + 300 s) follow each other without
\* gap or overlap, and every sample, the first and the last included, has
\* its timestamp in exactly one of them
C17_WindowsCoverRecording ==
    WalkEnded =>
        /\ \A k \in DOMAIN visited :
                visited[k].EndTime = visited[k].StartTime + 300
        /\ \A k \in 1..(Len(visited) - 1) :
                visited[k + 1].StartTime = visited[k].EndTime
        /\ \A i \in DOMAIN timestamps :
                Cardinality({k \in DOMAIN visited :
                                /\ visited[k].StartTime <= timestamps[i]
                                /\ timestamps[i] < visited[k].EndTime}) = 1

(***************************************************************************)
(* Specifications                                                          *)
(***************************************************************************)
Init == MergeInit /\ ProcInit /\ MainInit /\ HrvInit /\ TsInit /\ WalkInit

SpecMerge == Init /\ [][MergeNext]_vars
SpecProcess == Init /\ [][ProcNext]_vars
SpecMain == Init /\ [][MainNext]_vars
SpecHrv == Init /\ [][HrvNext]_vars
SpecTs == Init /\ [][TsNext]_vars
SpecWalk == Init /\ [][WalkNext]_vars

====
